---- MODULE Spec2Model ----
(***************************************************************************)
(* A model of the EMSM core: the plugin lifecycle of emsm/plugins.py       *)
(* (PluginManager) and the bootstrap / lock / lifecycle sequencing of      *)
(* emsm/application.py (Application).                                      *)
(*                                                                         *)
(* Strings the code inspects character by character (file names, paths,   *)
(* version strings) are tuples of one-character strings.  The three maps   *)
(* of the PluginManager are Python dicts: sequences of key/value pairs in  *)
(* insertion order, where assigning to an existing key keeps its place.    *)
(***************************************************************************)
EXTENDS Integers, Sequences, FiniteSets, TLC

VARIABLES
    host,         \* what PluginManager._app exposes as VERSION
    pm,           \* the PluginManager: _plugin_modules, _plugin_types, _plugins
    last,         \* the most recent PluginManager call: its arguments (of a directory
                  \* listing, the set of its entries) and its outcome
    discovered,   \* names in the order in which they became registered
    registered,   \* names in the order in which their instances were created
    pc,           \* per process: position in the documented top-level pattern
    lock_holder,  \* the process owning the advisory lock on <root>/app.lock
    app,          \* per process: the Application object
    trace         \* per process: the steps it has executed, oldest first

pmvars  == <<host, pm, last, discovered, registered>>
appvars == <<pc, lock_holder, app, trace>>
vars    == <<host, pm, last, discovered, registered, pc, lock_holder, app, trace>>

----------------------------------------------------------------------------
(* Bounds *)

\* Longest directory listing handed to import_from_directory.
MaxListing == 2

\* Most calls of the exit code interface made on one Application.
MaxCalls == 2

----------------------------------------------------------------------------
(* Strings *)

Str_py      == <<".", "p", "y">>
Str_plugins == <<"p">>

\* os.path.join(directory, filename)
join(directory, filename) == directory \o <<"/">> \o filename

\* os.path.basename(path): what follows the last "/".
basename(path) ==
    LET slashes == {i \in 1..Len(path) : path[i] = "/"}
        lastSlash == IF slashes = {} THEN 0
                     ELSE CHOOSE i \in slashes : \A j \in slashes : j <= i
    IN  SubSeq(path, lastSlash + 1, Len(path))

\* s[:-3]
StripLast3(s) == IF Len(s) <= 3 THEN <<>> ELSE SubSeq(s, 1, Len(s) - 3)

\* s.startswith(prefix), s.endswith(suffix), s.count(c)
startswith(s, prefix) ==
    Len(s) >= Len(prefix) /\ SubSeq(s, 1, Len(prefix)) = prefix
endswith(s, suffix) ==
    Len(s) >= Len(suffix) /\ SubSeq(s, Len(s) - Len(suffix) + 1, Len(s)) = suffix
count(s, c) == Cardinality({i \in 1..Len(s) : s[i] = c})

\* s.split("."): the pieces between the dots, empty pieces included.
RECURSIVE SplitFrom(_, _, _)
SplitFrom(s, i, piece) ==
    IF i > Len(s) THEN <<piece>>
    ELSE IF s[i] = "." THEN <<piece>> \o SplitFrom(s, i + 1, <<>>)
    ELSE SplitFrom(s, i + 1, Append(piece, s[i]))
split(s) == SplitFrom(s, 1, <<>>)

----------------------------------------------------------------------------
(* Python dicts in insertion order *)

DictKeys(d)   == [i \in 1..Len(d) |-> d[i].k]
DictValues(d) == [i \in 1..Len(d) |-> d[i].v]
DictHas(d, key) == \E i \in 1..Len(d) : d[i].k = key
DictGet(d, key) == d[CHOOSE i \in 1..Len(d) : d[i].k = key].v
\* d[key] = val that adds an entry even when d holds the key already.
DictSet_Appends(d, key, val) == Append(d, [k |-> key, v |-> val])

\* d[key] = val: an existing key keeps its place in the order of the dict.
DictSet(d, key, val) ==
    IF DictHas(d, key)
    THEN [i \in 1..Len(d) |-> IF d[i].k = key THEN [k |-> key, v |-> val] ELSE d[i]]
    ELSE Append(d, [k |-> key, v |-> val])
DictDel(d, key) == SelectSeq(d, LAMBDA e : e.k # key)

SeqToSet(s) == {s[i] : i \in 1..Len(s)}

\* sorted(seq, key=...): stable, ascending.  The argument is the sequence of
\* [key, item] pairs, the key being what the key function returns for the item.
RECURSIVE InsertSorted(_, _)
InsertSorted(x, s) ==
    IF s = <<>> THEN <<x>>
    ELSE IF x.key < Head(s).key THEN <<x>> \o s
    ELSE <<Head(s)>> \o InsertSorted(x, Tail(s))
RECURSIVE sorted(_)
sorted(s) ==
    IF s = <<>> THEN <<>>
    ELSE InsertSorted(s[Len(s)], sorted(SubSeq(s, 1, Len(s) - 1)))

----------------------------------------------------------------------------
(* Plugin source files *)

\* What is on disk under a file name: the directory entry and, for a source
\* file, what loading it and inspecting the loaded module gives.
\*   kind        "file", "dir", or "special" (neither: a dangling link, a fifo)
\*   load        "ok", "ImportError", or "SyntaxError" (any error that is not an
\*               ImportError, raised while the module's code is read or executed)
\*   has_PLUGIN  hasattr(module, "PLUGIN")
\*   has_class   hasattr(module, module.PLUGIN)
\*   cls         "subclass" of BasePlugin, "other" class, or "notclass" (the
\*               attribute PLUGIN names is no class at all)
File(fn, kind, load, hasP, hasC, cls, ip, fp, ver) ==
    [filename |-> fn, kind |-> kind, load |-> load, has_PLUGIN |-> hasP,
     has_class |-> hasC, cls |-> cls, INIT_PRIORITY |-> ip,
     FINISH_PRIORITY |-> fp, VERSION |-> ver]

Plugin(fn, ip, fp, ver) ==
    File(fn, "file", "ok", TRUE, TRUE, "subclass", ip, fp, ver)
Broken(fn, load, hasP, hasC, cls) ==
    File(fn, "file", load, hasP, hasC, cls, 0, 0, <<"3", ".", "0">>)

Fn_a  == <<"a", ".", "p", "y">>
Fn_b  == <<"b", ".", "p", "y">>
Fn_n  == <<"n", ".", "p", "y">>
Fn_s  == <<"s", ".", "p", "y">>
Fn_i  == <<"i", ".", "p", "y">>
Fn_h  == <<"_", "h", ".", "p", "y">>
Fn_t  == <<"t", ".", "t", "x", "t">>
Fn_yz == <<"y", ".", "z", ".", "p", "y">>
Fn_d  == <<"d", ".", "p", "y">>
Fn_l  == <<"l", ".", "p", "y">>
Fn_m  == <<"m", ".", "p", "y">>
Fn_o  == <<"o", ".", "p", "y">>
Fn_k  == <<"k", ".", "p", "y">>

\* Contract-valid plugins.  a.py exists in two editions, so that a name can be
\* imported again with other contents.
File_a1 == Plugin(Fn_a, 1, 0, <<"3", ".", "2", ".", "1">>)
File_a2 == Plugin(Fn_a, 0, 1, <<"2", ".", "9", ".", "0">>)
File_b  == Plugin(Fn_b, 0, 0, <<"3", ".", "0">>)

\* Source files that do not load or break the plugin contract.
File_aImp == Broken(Fn_a, "ImportError", FALSE, FALSE, "other")
File_i    == Broken(Fn_i, "ImportError", FALSE, FALSE, "other")
File_s    == Broken(Fn_s, "SyntaxError", FALSE, FALSE, "other")
File_n    == Broken(Fn_n, "ok", FALSE, FALSE, "other")
File_m    == Broken(Fn_m, "ok", TRUE, FALSE, "other")
File_o    == Broken(Fn_o, "ok", TRUE, TRUE, "other")
File_k    == Broken(Fn_k, "ok", TRUE, TRUE, "notclass")

\* Directory entries the candidate filter is about.
File_h  == Plugin(Fn_h, 0, 0, <<"3", ".", "0">>)
File_t  == Plugin(Fn_t, 0, 0, <<"3", ".", "0">>)
File_yz == Plugin(Fn_yz, 0, 0, <<"3", ".", "0">>)
File_d  == File(Fn_d, "dir", "ok", TRUE, TRUE, "subclass", 0, 0, <<"3", ".", "0">>)
File_l  == File(Fn_l, "special", "ok", TRUE, TRUE, "subclass", 0, 0, <<"3", ".", "0">>)

\* Plugin classes with the VERSION strings the version check is applied to.
Fn_v    == <<"v", ".", "p", "y">>
File_v5  == Plugin(Fn_v, 0, 0, <<"5">>)
File_v31 == Plugin(Fn_v, 0, 0, <<"3", "1", ".", "0">>)
VersionedPlugins == {File_a1, File_a2, File_b, File_v5, File_v31}

\* What a direct import_plugin call may be pointed at.
Files == {File_a1, File_a2, File_b, File_aImp, File_i, File_s, File_n,
          File_m, File_o, File_k, File_d, File_l}

\* What a plugin directory may hold.
DirFiles == {File_a1, File_b, File_n, File_s, File_h, File_t, File_yz, File_d}

\* The listings os.listdir may return: the entries of a directory, each file
\* name once, in any order.
RECURSIVE ListingsOf(_)
ListingsOf(n) ==
    IF n = 0 THEN {<<>>}
    ELSE LET shorter == ListingsOf(n - 1)
         IN  shorter \cup
             {Append(l, f) : l \in {x \in shorter : Len(x) = n - 1}, f \in DirFiles}
Listings ==
    {l \in ListingsOf(MaxListing) :
        \A i, j \in 1..Len(l) : i # j => l[i].filename # l[j].filename}

\* The values of PluginManager._app.VERSION.  The Application class of
\* application.py defines no VERSION attribute (it only logs version.VERSION),
\* so on an Application the lookup raises AttributeError unless another part
\* of the package supplies the attribute: both outcomes are modelled.
NoAttribute  == <<"<", "n", "o", "n", "e", ">">>
HostVersions == {<<"3", ".", "0", ".", "0">>}
Hosts        == HostVersions \cup {NoAttribute}

----------------------------------------------------------------------------
(* Errors and results *)

NoError == [kind |-> "None", plugin |-> <<>>, msg |-> "None"]
Error(kind, plugin, msg) == [kind |-> kind, plugin |-> plugin, msg |-> msg]

\* PluginException and its subclasses (plugins.py 69-124).
PluginExceptions ==
    {"PluginUnavailableError", "PluginImplementationError", "PluginOutdatedError"}

\* A call into a plugin: the constructor ("init"), run, finish or uninstall.
Call(what, name, raised) == [call |-> what, name |-> name, raised |-> raised]

\* What a PluginManager method leaves behind: the manager's state, the error
\* it raised (NoError when it returned), the calls it made into plugins, the
\* warnings it logged, and the names it registered, each list in time order.
Result(m, raised, calls, warnings, imported) ==
    [pm |-> m, raised |-> raised, calls |-> calls, warnings |-> warnings,
     imported |-> imported]

\* What a method that returns a value leaves behind: the error it raised, or
\* NoError and the value.
Returned(raised, value) == [raised |-> raised, returned |-> value]

EmptyPM == [modules |-> <<>>, types |-> <<>>, plugins |-> <<>>]

----------------------------------------------------------------------------
(* PluginManager *)

\* _import_module(name, path): the loaded module, or the error loading raised.
\* A path that is no readable source file makes the loader raise an OSError.
_import_module(name, path, content) ==
    IF content.kind # "file" THEN Error("OSError", name, "load")
    ELSE IF content.load # "ok" THEN Error(content.load, name, "load")
    ELSE NoError

\* PluginManager._plugin_is_outdated(plugin), given what self._app.VERSION is:
\* on an application without that attribute the first statement raises
\* AttributeError.
_plugin_is_outdated(app_VERSION, plugin) ==
    IF app_VERSION = NoAttribute
    THEN Returned(Error("AttributeError", StripLast3(plugin.filename), "VERSION"),
                  "None")
    ELSE LET app_version    == split(app_VERSION)
             plugin_version == split(plugin.VERSION)
         IN  IF Len(plugin_version) < 2 THEN Returned(NoError, TRUE)
             ELSE IF app_version[1] # plugin_version[1] THEN Returned(NoError, TRUE)
             ELSE Returned(NoError, FALSE)

\* import_plugin that saves the module right after loading it, before the
\* contract is validated.
import_plugin_SavesEarly(m, app_VERSION, path, content) ==
    LET name   == StripLast3(basename(path))
        loaded == _import_module(name, path, content)
        early  == [m EXCEPT !.modules = DictSet(m.modules, name, content)]
        fail(e) == Result(early, e, <<>>, <<>>, <<>>)
        saved  == Result([early EXCEPT !.types = DictSet(m.types, name, content)],
                         NoError, <<>>, <<>>, <<name>>)
    IN  IF loaded.kind = "ImportError"
            THEN Result(m, Error("PluginUnavailableError", name, "ImportError"),
                        <<>>, <<>>, <<>>)
        ELSE IF loaded # NoError
            THEN Result(m, loaded, <<>>, <<>>, <<>>)
        ELSE IF ~content.has_PLUGIN
            THEN fail(Error("PluginImplementationError", name, "no PLUGIN"))
        ELSE IF ~content.has_class
            THEN fail(Error("PluginImplementationError", name, "no class"))
        ELSE IF content.cls = "notclass"
            THEN fail(Error("TypeError", name, "issubclass"))
        ELSE IF content.cls # "subclass"
            THEN fail(Error("PluginImplementationError", name, "not a BasePlugin"))
        ELSE LET outdated == _plugin_is_outdated(app_VERSION, content)
             IN  IF outdated.raised # NoError THEN fail(outdated.raised)
                 ELSE saved

\* PluginManager.import_plugin(path), content being what is on disk at path.
import_plugin(m, app_VERSION, path, content) ==
    LET name   == StripLast3(basename(path))
        loaded == _import_module(name, path, content)
        fail(e) == Result(m, e, <<>>, <<>>, <<>>)
        saved  == Result([m EXCEPT !.modules = DictSet(m.modules, name, content),
                                   !.types   = DictSet(m.types, name, content)],
                         NoError, <<>>, <<>>, <<name>>)
    IN  IF loaded.kind = "ImportError"
            THEN fail(Error("PluginUnavailableError", name, "ImportError"))
        ELSE IF loaded # NoError
            THEN fail(loaded)
        ELSE IF ~content.has_PLUGIN
            THEN fail(Error("PluginImplementationError", name, "no PLUGIN"))
        ELSE IF ~content.has_class
            THEN fail(Error("PluginImplementationError", name, "no class"))
        ELSE IF content.cls = "notclass"
            THEN fail(Error("TypeError", name, "issubclass"))
        ELSE IF content.cls # "subclass"
            THEN fail(Error("PluginImplementationError", name, "not a BasePlugin"))
        ELSE LET outdated == _plugin_is_outdated(app_VERSION, content)
             IN  IF outdated.raised # NoError THEN fail(outdated.raised)
                 ELSE IF outdated.returned
                     THEN saved  \* PluginOutdatedError(name) is built, not raised
                 ELSE saved

\* file_is_plugin(path) of import_from_directory.
file_is_plugin(path, content) ==
    LET filename == basename(path)
    IN  IF content.kind = "dir" THEN FALSE
        ELSE IF startswith(filename, <<"_">>) THEN FALSE
        ELSE IF ~endswith(filename, Str_py) THEN FALSE
        ELSE IF count(filename, ".") # 1 THEN FALSE
        ELSE TRUE

\* The loop of import_from_directory over the rest of the listing.
RECURSIVE ImportLoop(_, _, _, _, _, _)
ImportLoop(m, app_VERSION, directory, listing, warnings, imported) ==
    IF listing = <<>> THEN Result(m, NoError, <<>>, warnings, imported)
    ELSE LET content == Head(listing)
             path    == join(directory, content.filename)
         IN  IF ~file_is_plugin(path, content)
             THEN ImportLoop(m, app_VERSION, directory, Tail(listing), warnings,
                             imported)
             ELSE LET r == import_plugin(m, app_VERSION, path, content)
                  IN  IF r.raised = NoError
                      THEN ImportLoop(r.pm, app_VERSION, directory, Tail(listing),
                                      warnings, imported \o r.imported)
                      ELSE IF r.raised.kind \in PluginExceptions
                      THEN ImportLoop(r.pm, app_VERSION, directory, Tail(listing),
                                      Append(warnings, r.raised), imported)
                      ELSE Result(r.pm, r.raised, <<>>, warnings, imported)

\* PluginManager.import_from_directory(directory), listing being what
\* os.listdir(directory) returns, each entry with what is on disk under it.
import_from_directory(m, app_VERSION, directory, listing) ==
    ImportLoop(m, app_VERSION, directory, listing, <<>>, <<>>)

\* PluginManager.get_module(plugin_name) and get_plugin_type(plugin_name):
\* dict.get, whose result is <<value>> for a key of the dict and <<>> for None.
get_module(m, plugin_name) ==
    IF DictHas(m.modules, plugin_name) THEN <<DictGet(m.modules, plugin_name)>>
    ELSE <<>>
get_plugin_type(m, plugin_name) ==
    IF DictHas(m.types, plugin_name) THEN <<DictGet(m.types, plugin_name)>>
    ELSE <<>>

\* PluginManager.plugin_is_available(plugin_name)
plugin_is_available(m, plugin_name) == DictHas(m.modules, plugin_name)

\* PluginManager.get_plugin_names()
get_plugin_names(m) == DictKeys(m.modules)

\* A plugin instance: the class it was constructed from and its name.
Instance(type, name) == [type |-> type, name |-> name]

\* remove_plugin without "del self._plugins[plugin_name]".
remove_plugin_KeepsInstance(m, plugin_name, call_finish, finish_raises) ==
    IF ~DictHas(m.plugins, plugin_name)
    THEN Result(m, NoError, <<>>, <<>>, <<>>)
    ELSE IF call_finish /\ finish_raises
    THEN Result(m, Error("PluginError", plugin_name, "finish"),
                <<Call("finish", plugin_name, TRUE)>>, <<>>, <<>>)
    ELSE Result([modules |-> DictDel(m.modules, plugin_name),
                 types   |-> DictDel(m.types, plugin_name),
                 plugins |-> m.plugins],
                NoError,
                IF call_finish THEN <<Call("finish", plugin_name, FALSE)>> ELSE <<>>,
                <<>>, <<>>)

\* remove_plugin without "del self._plugin_types[plugin_name]".
remove_plugin_KeepsType(m, plugin_name, call_finish, finish_raises) ==
    IF ~DictHas(m.plugins, plugin_name)
    THEN Result(m, NoError, <<>>, <<>>, <<>>)
    ELSE IF call_finish /\ finish_raises
    THEN Result(m, Error("PluginError", plugin_name, "finish"),
                <<Call("finish", plugin_name, TRUE)>>, <<>>, <<>>)
    ELSE Result([modules |-> DictDel(m.modules, plugin_name),
                 types   |-> m.types,
                 plugins |-> DictDel(m.plugins, plugin_name)],
                NoError,
                IF call_finish THEN <<Call("finish", plugin_name, FALSE)>> ELSE <<>>,
                <<>>, <<>>)

\* PluginManager.remove_plugin(plugin_name, call_finish); finish_raises tells
\* whether the instance's finish() raises when called.
remove_plugin(m, plugin_name, call_finish, finish_raises) ==
    IF ~DictHas(m.plugins, plugin_name)
    THEN Result(m, NoError, <<>>, <<>>, <<>>)
    ELSE IF call_finish /\ finish_raises
    THEN Result(m, Error("PluginError", plugin_name, "finish"),
                <<Call("finish", plugin_name, TRUE)>>, <<>>, <<>>)
    ELSE Result([modules |-> DictDel(m.modules, plugin_name),
                 types   |-> DictDel(m.types, plugin_name),
                 plugins |-> DictDel(m.plugins, plugin_name)],
                NoError,
                IF call_finish THEN <<Call("finish", plugin_name, FALSE)>> ELSE <<>>,
                <<>>, <<>>)

\* PluginManager.uninstall(plugin_name).  PluginManager defines no method
\* unload, so the call after plugin.uninstall() raises AttributeError.
uninstall(m, plugin_name, uninstall_raises) ==
    IF ~DictHas(m.plugins, plugin_name)
    THEN Result(m, NoError, <<>>, <<>>, <<>>)
    ELSE IF uninstall_raises
    THEN Result(m, Error("PluginError", plugin_name, "uninstall"),
                <<Call("uninstall", plugin_name, TRUE)>>, <<>>, <<>>)
    ELSE Result(m, Error("AttributeError", plugin_name, "unload"),
                <<Call("uninstall", plugin_name, FALSE)>>, <<>>, <<>>)

\* init_queue without the sort: the items in the order of the dict.
init_queue_Unsorted(m) == m.types

\* The queue of init_plugins: the (name, type) items sorted by INIT_PRIORITY.
init_queue(m) ==
    LET items == m.types
        pairs == [i \in 1..Len(items) |->
                     [key |-> items[i].v.INIT_PRIORITY, item |-> items[i]]]
        queue == sorted(pairs)
    IN  [i \in 1..Len(queue) |-> queue[i].item]

\* The loop of init_plugins over the rest of the queue; raising is the set of
\* names whose constructor raises.
RECURSIVE InitLoop(_, _, _, _)
InitLoop(m, queue, raising, calls) ==
    IF queue = <<>> THEN Result(m, NoError, calls, <<>>, <<>>)
    ELSE LET name == Head(queue).k
             plugin_type == Head(queue).v
         IN  IF DictHas(m.plugins, name)
             THEN InitLoop(m, Tail(queue), raising, calls)
             ELSE IF name \in raising
             THEN Result(m, Error("PluginError", name, "init"),
                         Append(calls, Call("init", name, TRUE)), <<>>, <<>>)
             ELSE InitLoop([m EXCEPT !.plugins =
                                DictSet(m.plugins, name, Instance(plugin_type, name))],
                           Tail(queue), raising,
                           Append(calls, Call("init", name, FALSE)))

\* init_plugins without "if name in self._plugins: continue".
RECURSIVE InitLoop_NoSkip(_, _, _, _)
InitLoop_NoSkip(m, queue, raising, calls) ==
    IF queue = <<>> THEN Result(m, NoError, calls, <<>>, <<>>)
    ELSE LET name == Head(queue).k
             plugin_type == Head(queue).v
         IN  IF name \in raising
             THEN Result(m, Error("PluginError", name, "init"),
                         Append(calls, Call("init", name, TRUE)), <<>>, <<>>)
             ELSE InitLoop_NoSkip([m EXCEPT !.plugins =
                                      DictSet(m.plugins, name, Instance(plugin_type, name))],
                                  Tail(queue), raising,
                                  Append(calls, Call("init", name, FALSE)))
init_plugins_NoSkip(m, raising) == InitLoop_NoSkip(m, init_queue(m), raising, <<>>)

\* init_plugins that drops the instances it has constructed when a later
\* constructor raises.
init_plugins_RollsBack(m, raising) ==
    LET r == InitLoop(m, init_queue(m), raising, <<>>)
    IN  IF r.raised = NoError THEN r
        ELSE Result(m, r.raised, r.calls, <<>>, <<>>)

\* PluginManager.init_plugins()
init_plugins(m, raising) == InitLoop(m, init_queue(m), raising, <<>>)

\* run() dispatching to every instance, whatever the arguments select.
run_EveryInstance(m, plugin_name, run_raises) ==
    Result(m, NoError,
           [i \in 1..Len(m.plugins) |-> Call("run", m.plugins[i].k, FALSE)],
           <<>>, <<>>)

\* PluginManager.run(); plugin_name is args.plugin ("None" when no plugin was
\* selected), run_raises tells whether the plugin's run(args) raises.
None == <<"N", "o", "n", "e">>
run(m, plugin_name, run_raises) ==
    IF plugin_name = None THEN Result(m, NoError, <<>>, <<>>, <<>>)
    ELSE IF ~DictHas(m.plugins, plugin_name)
    THEN Result(m, Error("KeyError", plugin_name, "_plugins"), <<>>, <<>>, <<>>)
    ELSE Result(m,
                IF run_raises THEN Error("PluginError", plugin_name, "run")
                              ELSE NoError,
                <<Call("run", plugin_name, run_raises)>>, <<>>, <<>>)

\* finish_queue sorted by the key of init_plugins, INIT_PRIORITY.
finish_queue_ByInitPriority(m) ==
    LET values == DictValues(m.plugins)
        pairs == [i \in 1..Len(values) |->
                     [key |-> values[i].type.INIT_PRIORITY, item |-> values[i]]]
        queue == sorted(pairs)
    IN  [i \in 1..Len(queue) |-> queue[i].item]

\* The queue of finish: the instances sorted by FINISH_PRIORITY.
finish_queue(m) ==
    LET values == DictValues(m.plugins)
        pairs == [i \in 1..Len(values) |->
                     [key |-> values[i].type.FINISH_PRIORITY, item |-> values[i]]]
        queue == sorted(pairs)
    IN  [i \in 1..Len(queue) |-> queue[i].item]

\* The loop of finish over the rest of the queue; raising is the set of names
\* whose finish() raises.
RECURSIVE FinishLoop(_, _, _, _)
FinishLoop(m, queue, raising, calls) ==
    IF queue = <<>> THEN Result(m, NoError, calls, <<>>, <<>>)
    ELSE LET plugin == Head(queue)
         IN  IF plugin.name \in raising
             THEN Result(m, Error("PluginError", plugin.name, "finish"),
                         Append(calls, Call("finish", plugin.name, TRUE)), <<>>, <<>>)
             ELSE FinishLoop(m, Tail(queue), raising,
                             Append(calls, Call("finish", plugin.name, FALSE)))

\* PluginManager.finish()
finish(m, raising) == FinishLoop(m, finish_queue(m), raising, <<>>)

----------------------------------------------------------------------------
(* Application *)

\* The processes started on one root directory.
Procs == {1, 2}

\* lock_holder when no process holds the lock.
Nobody == 0

\* What os.listdir returns for the plugins directory the processes share.
AppListing == <<File_a1, File_b, File_h, File_n>>

\* The values of emsm.timeout in the configuration.
ConfTimeouts == {0, 1}

\* The values of emsm.user in the configuration.
ConfUsers == {<<"m", "c">>}

\* Application.__init__: the exit code starts at 0.  exc is the error
\* propagating at the top level, status the process's exit status (-1 while
\* the process runs), user, timeout and selected what the configuration and
\* the parsed arguments hold, waited whether an attempt to take the lock has
\* found it held.
NewApp == [_exit_code |-> 0, _plugins |-> EmptyPM, exc |-> NoError,
           status |-> -1, user |-> <<>>, timeout |-> 0, selected |-> None,
           waited |-> FALSE]

InitApps ==
    /\ pc = [p \in Procs |-> "conf.read"]
    /\ lock_holder = Nobody
    /\ app = [p \in Procs |-> NewApp]
    /\ trace = [p \in Procs |-> <<>>]

\* An executed step: its outcome, the calls it made into plugins, and whether
\* the process held the lock when the step began.
Event(step, raised, calls, locked) ==
    [step |-> step, raised |-> raised, calls |-> calls, locked |-> locked]

\* The codes plugins pass to set_exit_code: integers, and a value that is no int.
NotAnInt  == [int |-> FALSE, value |-> 2]
Int_(n)   == [int |-> TRUE, value |-> n]
CodeArgs  == {Int_(4), Int_(-1), NotAnInt}
NoCall    == [int |-> FALSE, value |-> 0]

\* set_exit_code storing the code without looking at it.
set_exit_code_Unchecked(a, code) ==
    [app |-> [a EXCEPT !._exit_code = code.value], raised |-> NoError]

\* Application.set_exit_code(code)
set_exit_code(a, code) ==
    IF ~code.int THEN [app |-> a, raised |-> Error("TypeError", <<>>, "code")]
    ELSE IF code.value < 0 THEN [app |-> a, raised |-> Error("ValueError", <<>>, "code")]
    ELSE [app |-> [a EXCEPT !._exit_code = code.value], raised |-> NoError]

\* Application.exit_code()
exit_code(a) == Returned(NoError, a._exit_code)

\* finish() without "self._lock.release()".
Application_finish_KeepsLock(a, holder, p) ==
    [lock_holder |-> holder, returned |-> a._exit_code, raised |-> NoError]

\* Application.finish(): releases the lock (FileLock.release does nothing when
\* the lock is not held) and returns the exit code.
Application_finish(a, holder, p) ==
    [lock_holder |-> IF holder = p THEN Nobody ELSE holder,
     returned |-> a._exit_code,
     raised |-> NoError]

\* except Exception: catches everything but SystemExit.
IsException(err) == err.kind # "SystemExit"

\* A step of setup() or run() returned: go on with the next statement.
Returns(p, step, next, a, calls) ==
    /\ pc' = [pc EXCEPT ![p] = next]
    /\ app' = [app EXCEPT ![p] = a]
    /\ trace' = [trace EXCEPT ![p] =
                    Append(@, Event(step, NoError, calls, lock_holder = p))]

\* Raises with a run() that swallows what a plugin's run() or finish() raises
\* and goes on with its next statement.
Raises_RunGoesOn(p, step, err, a, calls) ==
    /\ pc' = [pc EXCEPT ![p] =
                 IF step = "plugins.run" THEN "plugins.finish"
                 ELSE IF step = "plugins.finish" THEN "conf.write"
                 ELSE IF IsException(err) THEN "except" ELSE "finally"]
    /\ app' = [app EXCEPT ![p] = [a EXCEPT !.exc = err]]
    /\ trace' = [trace EXCEPT ![p] =
                    Append(@, Event(step, err, calls, lock_holder = p))]

\* A step of setup() or run() raised: the error leaves setup()/run() and
\* reaches the except clause of the top level, or its finally clause.
Raises(p, step, err, a, calls) ==
    /\ pc' = [pc EXCEPT ![p] = IF IsException(err) THEN "except" ELSE "finally"]
    /\ app' = [app EXCEPT ![p] = [a EXCEPT !.exc = err]]
    /\ trace' = [trace EXCEPT ![p] =
                    Append(@, Event(step, err, calls, lock_holder = p))]

\* A step whose work is done by a collaborator outside the core: it returns,
\* or fails with an error of its own.
External(p, step, next) ==
    \E fails \in BOOLEAN :
        IF fails THEN Raises(p, step, Error("EnvironmentError", <<>>, step), app[p], <<>>)
        ELSE Returns(p, step, next, app[p], <<>>)

\* setup(): self._conf.read()
Setup_conf_read(p) ==
    /\ pc[p] = "conf.read"
    /\ \/ \E t \in ConfTimeouts, u \in ConfUsers :
             Returns(p, "conf.read", "_switch_user",
                     [app[p] EXCEPT !.timeout = t, !.user = u], <<>>)
       \/ Raises(p, "conf.read", Error("EnvironmentError", <<>>, "conf.read"), app[p], <<>>)
    /\ UNCHANGED <<lock_holder, pmvars>>

\* How the system answers _switch_user: the user is unknown to pwd.getpwnam,
\* os.setgid or os.setuid is refused, or both switches succeed.
SwitchOutcomes == {"ok", "unknown user", "setgid refused", "setuid refused"}

\* Application._switch_user(): the user is looked up outside the try block, so
\* an unknown user raises KeyError; the group is switched first, then the
\* user; an OSError of either becomes WrongUserError(username).
_switch_user(username, outcome) ==
    IF outcome = "unknown user"
    THEN [raised |-> Error("KeyError", username, "getpwnam"), calls |-> <<>>]
    ELSE IF outcome = "setgid refused"
    THEN [raised |-> Error("WrongUserError", username, "setgid"),
          calls |-> <<Call("setgid", username, TRUE)>>]
    ELSE IF outcome = "setuid refused"
    THEN [raised |-> Error("WrongUserError", username, "setuid"),
          calls |-> <<Call("setgid", username, FALSE), Call("setuid", username, TRUE)>>]
    ELSE [raised |-> NoError,
          calls |-> <<Call("setgid", username, FALSE), Call("setuid", username, FALSE)>>]

\* setup(): self._switch_user()
Setup_switch_user(p) ==
    /\ pc[p] = "_switch_user"
    /\ \E outcome \in SwitchOutcomes :
          LET r == _switch_user(app[p].user, outcome)
          IN  IF r.raised = NoError
              THEN Returns(p, "_switch_user", "chdir", app[p], r.calls)
              ELSE Raises(p, "_switch_user", r.raised, app[p], r.calls)
    /\ UNCHANGED <<lock_holder, pmvars>>

\* setup(): os.chdir(self._paths.root_dir())
Setup_chdir(p) ==
    /\ pc[p] = "chdir"
    /\ External(p, "chdir", "paths.create")
    /\ UNCHANGED <<lock_holder, pmvars>>

\* setup() going from self._paths.create() to self._logger.setup(), the lock
\* not acquired.
Setup_paths_create_ThenLogger(p) ==
    /\ pc[p] = "paths.create"
    /\ External(p, "paths.create", "logger.setup")
    /\ UNCHANGED <<lock_holder, pmvars>>

\* setup(): self._paths.create()
Setup_paths_create(p) ==
    /\ pc[p] = "paths.create"
    /\ External(p, "paths.create", "lock.acquire")
    /\ UNCHANGED <<lock_holder, pmvars>>

\* setup(): self._lock.acquire(lock_timeout, 0.05) gets the lock.
Setup_lock_acquire(p) ==
    /\ pc[p] = "lock.acquire"
    /\ lock_holder = Nobody
    /\ lock_holder' = p
    /\ Returns(p, "lock.acquire", "logger.setup", app[p], <<>>)
    /\ UNCHANGED pmvars

\* setup(): self._lock.acquire(lock_timeout, 0.05) finds the lock held by
\* another process and sleeps for the polling interval.
Setup_lock_poll(p) ==
    /\ pc[p] = "lock.acquire"
    /\ lock_holder # Nobody /\ lock_holder # p
    /\ ~app[p].waited
    /\ app' = [app EXCEPT ![p].waited = TRUE]
    /\ UNCHANGED <<pc, trace, lock_holder, pmvars>>

\* The lock wait giving up whatever emsm.timeout is.
Setup_lock_timeout_AnyConf(p) ==
    /\ pc[p] = "lock.acquire"
    /\ lock_holder # Nobody /\ lock_holder # p
    /\ app[p].waited
    /\ Raises(p, "lock.acquire", Error("Timeout", <<>>, "app.lock"), app[p], <<>>)
    /\ UNCHANGED <<lock_holder, pmvars>>

\* setup(): self._lock.acquire(lock_timeout, 0.05) gives up: the lock stayed
\* with another process for lock_timeout seconds.  lock_timeout is None, an
\* unbounded wait, unless emsm.timeout is positive.
Setup_lock_timeout(p) ==
    /\ pc[p] = "lock.acquire"
    /\ lock_holder # Nobody /\ lock_holder # p
    /\ app[p].waited
    /\ app[p].timeout > 0
    /\ Raises(p, "lock.acquire", Error("Timeout", <<>>, "app.lock"), app[p], <<>>)
    /\ UNCHANGED <<lock_holder, pmvars>>

\* setup(): self._logger.setup()
Setup_logger(p) ==
    /\ pc[p] = "logger.setup"
    /\ External(p, "logger.setup", "conf.reread")
    /\ UNCHANGED <<lock_holder, pmvars>>

\* setup(): self._conf.read(), again
Setup_conf_reread(p) ==
    /\ pc[p] = "conf.reread"
    /\ External(p, "conf.reread", "load_worlds")
    /\ UNCHANGED <<lock_holder, pmvars>>

\* setup(): self._worlds.load_worlds()
Setup_load_worlds(p) ==
    /\ pc[p] = "load_worlds"
    /\ External(p, "load_worlds", "plugins.setup")
    /\ UNCHANGED <<lock_holder, pmvars>>

\* setup(): self._plugins.setup(), that is PluginManager.setup
Setup_plugins(p) ==
    /\ pc[p] = "plugins.setup"
    /\ LET r == import_from_directory(app[p]._plugins, host, Str_plugins, AppListing)
           a == [app[p] EXCEPT !._plugins = r.pm]
       IN  IF r.raised = NoError
           THEN Returns(p, "plugins.setup", "plugins.init_plugins", a, r.calls)
           ELSE Raises(p, "plugins.setup", r.raised, a, r.calls)
    /\ UNCHANGED <<lock_holder, pmvars>>

\* setup(): self._plugins.init_plugins()
Setup_init_plugins(p) ==
    /\ pc[p] = "plugins.init_plugins"
    /\ \E raising \in SUBSET {StripLast3(Fn_a), StripLast3(Fn_b)} :
          LET r == init_plugins(app[p]._plugins, raising)
              a == [app[p] EXCEPT !._plugins = r.pm]
          IN  IF r.raised = NoError
              THEN Returns(p, "plugins.init_plugins", "argparser.setup", a, r.calls)
              ELSE Raises(p, "plugins.init_plugins", r.raised, a, r.calls)
    /\ UNCHANGED <<lock_holder, pmvars>>

\* setup(): self._argparser.setup(); setup() returns and run() begins.
Setup_argparser(p) ==
    /\ pc[p] = "argparser.setup"
    /\ External(p, "argparser.setup", "argparser.args")
    /\ UNCHANGED <<lock_holder, pmvars>>

\* run(): self._argparser.args(cache=False): the arguments select a plugin, or
\* none; arguments the parser rejects end in SystemExit.
Run_args(p) ==
    /\ pc[p] = "argparser.args"
    /\ \/ \E name \in {StripLast3(Fn_a), StripLast3(Fn_b), StripLast3(Fn_n), None} :
             Returns(p, "argparser.args", "plugins.run",
                     [app[p] EXCEPT !.selected = name], <<>>)
       \/ Raises(p, "argparser.args", Error("SystemExit", <<>>, "usage"), app[p], <<>>)
    /\ UNCHANGED <<lock_holder, pmvars>>

\* run(): self._plugins.run().  The selected plugin's run(args) may call
\* set_exit_code before it returns or raises; code is what it passes (NoCall:
\* it does not call), raises how it ends ("no": it returns).
Run_plugins_run(p) ==
    /\ pc[p] = "plugins.run"
    /\ \E code \in CodeArgs \cup {NoCall}, raises \in {"no", "PluginError", "SystemExit"} :
          LET called == DictHas(app[p]._plugins.plugins, app[p].selected)
              set == IF called /\ code # NoCall THEN set_exit_code(app[p], code)
                     ELSE [app |-> app[p], raised |-> NoError]
              ends == IF set.raised # NoError THEN set.raised
                      ELSE IF raises = "no" THEN NoError
                      ELSE Error(raises, app[p].selected, "run")
              r == run(app[p]._plugins, app[p].selected, ends # NoError)
              err == IF r.raised.kind = "PluginError" THEN ends ELSE r.raised
          IN  /\ ~called => code = NoCall /\ raises = "no"
              /\ IF err = NoError
                 THEN Returns(p, "plugins.run", "plugins.finish", set.app, r.calls)
                 ELSE Raises(p, "plugins.run", err, set.app, r.calls)
    /\ UNCHANGED <<lock_holder, pmvars>>

\* run() calling finish() on the first instance of the finish queue only.
Run_plugins_finish_FirstOnly(p) ==
    /\ pc[p] = "plugins.finish"
    /\ \E raising \in SUBSET {StripLast3(Fn_a), StripLast3(Fn_b)} :
          LET queue == finish_queue(app[p]._plugins)
              r == FinishLoop(app[p]._plugins,
                              IF queue = <<>> THEN <<>> ELSE <<Head(queue)>>,
                              raising, <<>>)
          IN  IF r.raised = NoError
              THEN Returns(p, "plugins.finish", "conf.write", app[p], r.calls)
              ELSE Raises(p, "plugins.finish", r.raised, app[p], r.calls)
    /\ UNCHANGED <<lock_holder, pmvars>>

\* run(): self._plugins.finish()
Run_plugins_finish(p) ==
    /\ pc[p] = "plugins.finish"
    /\ \E raising \in SUBSET {StripLast3(Fn_a), StripLast3(Fn_b)} :
          LET r == finish(app[p]._plugins, raising)
          IN  IF r.raised = NoError
              THEN Returns(p, "plugins.finish", "conf.write", app[p], r.calls)
              ELSE Raises(p, "plugins.finish", r.raised, app[p], r.calls)
    /\ UNCHANGED <<lock_holder, pmvars>>

\* run(): self._conf.write(); run() returns, the try block is left normally.
Run_conf_write(p) ==
    /\ pc[p] = "conf.write"
    /\ External(p, "conf.write", "finally")
    /\ UNCHANGED <<lock_holder, pmvars>>

\* except Exception as err: app.handle_exception(); raise
Except(p) ==
    /\ pc[p] = "except"
    /\ pc' = [pc EXCEPT ![p] = "finally"]
    /\ trace' = [trace EXCEPT ![p] =
                    Append(@, Event("handle_exception", NoError, <<>>, lock_holder = p))]
    /\ UNCHANGED <<app, lock_holder, pmvars>>

\* finally: exit(app.finish()).  exit raises SystemExit with what finish()
\* returned, which replaces an error that was propagating: the process ends
\* with that status.  Were finish() to raise, the process would end with the
\* status 1 of an uncaught error.
Finally(p) ==
    /\ pc[p] = "finally"
    /\ LET f == Application_finish(app[p], lock_holder, p)
       IN  /\ lock_holder' = f.lock_holder
           /\ app' = [app EXCEPT ![p].status =
                         IF f.raised = NoError THEN f.returned ELSE 1]
           /\ trace' = [trace EXCEPT ![p] =
                           Append(@, Event("finish", f.raised, <<>>, lock_holder = p))]
    /\ pc' = [pc EXCEPT ![p] = "exited"]
    /\ UNCHANGED pmvars

NextApp ==
    \E p \in Procs :
        \/ Setup_conf_read(p)
        \/ Setup_switch_user(p)
        \/ Setup_chdir(p)
        \/ Setup_paths_create(p)
        \/ Setup_lock_acquire(p)
        \/ Setup_lock_poll(p)
        \/ Setup_lock_timeout(p)
        \/ Setup_logger(p)
        \/ Setup_conf_reread(p)
        \/ Setup_load_worlds(p)
        \/ Setup_plugins(p)
        \/ Setup_init_plugins(p)
        \/ Setup_argparser(p)
        \/ Run_args(p)
        \/ Run_plugins_run(p)
        \/ Run_plugins_finish(p)
        \/ Run_conf_write(p)
        \/ Except(p)
        \/ Finally(p)

----------------------------------------------------------------------------
(* A PluginManager driven by arbitrary calls *)

Name_a == StripLast3(Fn_a)
Name_b == StripLast3(Fn_b)
Name_n == StripLast3(Fn_n)

\* The names the calls that take a plugin name are made with: the names of the
\* contract-valid plugins and one name that is never registered.
ValidNames == {Name_a, Name_b}
CallNames  == ValidNames \cup {Name_n}

\* PluginManager.__init__ and Application.__init__
Init ==
    /\ host \in Hosts
    /\ pm = EmptyPM
    /\ last = [op |-> "__init__", arg |-> <<>>, raised |-> NoError, calls |-> <<>>,
               warnings |-> <<>>, imported |-> <<>>, returned |-> "None"]
    /\ discovered = <<>>
    /\ registered = <<>>
    /\ InitApps

\* s followed by the elements of t that s does not hold yet.
RECURSIVE AppendNew(_, _)
AppendNew(s, t) ==
    IF t = <<>> THEN s
    ELSE AppendNew(IF Head(t) \in SeqToSet(s) THEN s ELSE Append(s, Head(t)), Tail(t))

Constructed(calls) ==
    LET ok == SelectSeq(calls, LAMBDA c : c.call = "init" /\ ~c.raised)
    IN  [i \in 1..Len(ok) |-> ok[i].name]

\* The bookkeeping of a call op(arg) that ended as r.
Record(op, arg, r) ==
    /\ last' = [op |-> op, arg |-> arg, raised |-> r.raised, calls |-> r.calls,
                warnings |-> r.warnings, imported |-> r.imported,
                returned |-> "None"]
    /\ discovered' =
          AppendNew(SelectSeq(discovered, LAMBDA n : DictHas(r.pm.types, n)),
                    r.imported)
    /\ registered' =
          AppendNew(SelectSeq(registered, LAMBDA n : DictHas(r.pm.plugins, n)),
                    Constructed(r.calls))
    /\ UNCHANGED <<host, pc, lock_holder, app, trace>>

CallImportPlugin ==
    \E f \in Files :
        LET r == import_plugin(pm, host, join(Str_plugins, f.filename), f)
        IN  /\ pm' = r.pm
            /\ Record("import_plugin", f, r)

CallImportFromDirectory ==
    \E listing \in Listings :
        LET r == import_from_directory(pm, host, Str_plugins, listing)
        IN  /\ pm' = r.pm
            /\ Record("import_from_directory", SeqToSet(listing), r)

CallInitPlugins ==
    \E raising \in SUBSET ValidNames :
        LET r == init_plugins(pm, raising)
        IN  /\ pm' = r.pm
            /\ Record("init_plugins", raising, r)

\* finish_raises, uninstall_raises and run_raises say how the plugin's method
\* ends; they matter only when the call reaches the plugin.
CallRemovePlugin ==
    \E name \in CallNames, call_finish \in BOOLEAN, finish_raises \in BOOLEAN :
        LET r == remove_plugin(pm, name, call_finish, finish_raises)
        IN  /\ finish_raises => call_finish /\ DictHas(pm.plugins, name)
            /\ pm' = r.pm
            /\ Record("remove_plugin", <<name, call_finish>>, r)

CallUninstall ==
    \E name \in CallNames, uninstall_raises \in BOOLEAN :
        LET r == uninstall(pm, name, uninstall_raises)
        IN  /\ uninstall_raises => DictHas(pm.plugins, name)
            /\ pm' = r.pm
            /\ Record("uninstall", name, r)

CallRun ==
    \E name \in CallNames \cup {None}, run_raises \in BOOLEAN :
        LET r == run(pm, name, run_raises)
        IN  /\ run_raises => DictHas(pm.plugins, name)
            /\ pm' = r.pm
            /\ Record("run", name, r)

CallFinish ==
    \E raising \in SUBSET ValidNames :
        LET r == finish(pm, raising)
        IN  /\ pm' = r.pm
            /\ Record("finish", raising, r)

\* The version check applied to a plugin class, whatever its VERSION.
CallPluginIsOutdated ==
    \E plugin \in VersionedPlugins :
        LET r == _plugin_is_outdated(host, plugin)
        IN  /\ last' = [op |-> "_plugin_is_outdated", arg |-> plugin,
                        raised |-> r.raised, calls |-> <<>>, warnings |-> <<>>,
                        imported |-> <<>>, returned |-> r.returned]
            /\ UNCHANGED <<pm, discovered, registered, host, pc, lock_holder, app,
                           trace>>

Next ==
    \/ CallImportPlugin
    \/ CallImportFromDirectory
    \/ CallInitPlugins
    \/ CallRemovePlugin
    \/ CallUninstall
    \/ CallRun
    \/ CallFinish
    \/ CallPluginIsOutdated

\* A PluginManager on which the methods are called in any order.
Spec == Init /\ [][Next]_vars

\* Processes that each run the documented top-level pattern on one root.
SpecApp == Init /\ [][NextApp]_vars

----------------------------------------------------------------------------
(* The exit code interface of an Application, called in any order *)

\* The codes set_exit_code is called with.
ExitCodeArgs == {Int_(0), Int_(4), Int_(-1), NotAnInt}

\* A call of the interface: its argument, what it raised, what it returned.
ApiEvent(step, arg, raised, returned) ==
    [step |-> step, arg |-> arg, raised |-> raised, returned |-> returned,
     calls |-> <<>>, locked |-> FALSE]

CallSetExitCode(p) ==
    /\ Len(trace[p]) < MaxCalls
    /\ \E code \in ExitCodeArgs :
          LET r == set_exit_code(app[p], code)
          IN  /\ app' = [app EXCEPT ![p] = r.app]
              /\ trace' = [trace EXCEPT ![p] =
                     Append(@, ApiEvent("set_exit_code", code, r.raised, "None"))]
    /\ UNCHANGED <<pc, lock_holder, pmvars>>

CallExitCode(p) ==
    /\ Len(trace[p]) < MaxCalls
    /\ LET r == exit_code(app[p])
       IN  trace' = [trace EXCEPT ![p] =
                        Append(@, ApiEvent("exit_code", "None", r.raised, r.returned))]
    /\ UNCHANGED <<app, pc, lock_holder, pmvars>>

NextExit ==
    \E p \in Procs :
        \/ CallSetExitCode(p)
        \/ CallExitCode(p)

\* Applications on which plugins call set_exit_code and exit_code.
SpecExit == Init /\ [][NextExit]_vars

----------------------------------------------------------------------------
(* Progress of the processes *)

\* The positions of a process in the top-level pattern.
Positions ==
    {"conf.read", "_switch_user", "chdir", "paths.create", "lock.acquire",
     "logger.setup", "conf.reread", "load_worlds", "plugins.setup",
     "plugins.init_plugins", "argparser.setup", "argparser.args", "plugins.run",
     "plugins.finish", "conf.write", "except", "finally", "exited"}

\* Process p can leave its position: every call into a collaborator or a
\* plugin ends, by returning or by raising; the lock wait ends when the lock
\* is free, or, with a positive timeout, after it was found held; a process
\* that has exited stays so.
CanAdvance(p) ==
    /\ pc[p] # "exited"
    /\ pc[p] = "lock.acquire" =>
          \/ lock_holder = Nobody
          \/ lock_holder # p /\ app[p].waited /\ app[p].timeout > 0

\* Process p leaves its position.
Advances(p) ==
    /\ CanAdvance(p)
    /\ \E next \in Positions : pc' = [pc EXCEPT ![p] = next]

\* The same processes, each of which keeps running: the statement a started
\* process is at ends and the process goes on, and the polling loop of the
\* lock wait takes the lock when it stays free.
SpecAppFair == SpecApp /\ \A p \in Procs : WF_pc(Advances(p))

----------------------------------------------------------------------------
(* Properties *)

Keys(d) == SeqToSet(DictKeys(d))

\* The place of x in the sequence s (0 when s does not hold x).
IndexOf(s, x) ==
    IF x \in SeqToSet(s) THEN CHOOSE i \in 1..Len(s) : s[i] = x ELSE 0

\* The names of the calls of kind what, in call order.
Called(calls, what) ==
    LET c == SelectSeq(calls, LAMBDA e : e.call = what)
    IN  [i \in 1..Len(c) |-> c[i].name]

\* C1: every name that has a plugin instance also has a module entry and a
\* type entry, whatever calls were made on the PluginManager.
C1_InstanceHasTypeAndModule ==
    \A n \in Keys(pm.plugins) : n \in Keys(pm.modules) /\ n \in Keys(pm.types)

\* An initialised plugin was removed while another instance stayed.
C1_Witness ==
    /\ last.op = "remove_plugin"
    /\ last.raised = NoError
    /\ last.calls # <<>>
    /\ last.arg[1] \notin Keys(pm.types)
    /\ pm.plugins # <<>>

\* The steps of a process that ran holding the lock: from its successful
\* acquisition in setup() to its finish().
Acquired(p) ==
    \E i \in 1..Len(trace[p]) :
        trace[p][i].step = "lock.acquire" /\ trace[p][i].raised = NoError
Finished(p) == \E i \in 1..Len(trace[p]) : trace[p][i].step = "finish"
InInterval(p) == Acquired(p) /\ ~Finished(p)

LockedSteps ==
    {"logger.setup", "load_worlds", "plugins.setup", "plugins.init_plugins",
     "plugins.run"}

\* C2: at most one process at a time is between its successful lock
\* acquisition and its finish(), and logger setup, world loading, plugin
\* discovery, plugin initialisation and plugin run happen in a process only
\* while it holds the lock.
C2_OneProcessAtATime ==
    /\ \A p, q \in Procs : p # q => ~(InInterval(p) /\ InInterval(q))
    /\ \A p \in Procs : \A i \in 1..Len(trace[p]) :
          trace[p][i].step \in LockedSteps => trace[p][i].locked

\* One process is through its whole run and has finished; the other has the
\* lock and has run a plugin.
C2_Witness ==
    \E p, q \in Procs :
        /\ p # q
        /\ Finished(p) /\ Acquired(p)
        /\ InInterval(q)
        /\ \E i \in 1..Len(trace[q]) :
              trace[q][i].step = "plugins.run" /\ trace[q][i].calls # <<>>

\* C3: on every exit path of setup()/run() the following finish() completes
\* without raising, leaves the lock not held by the process and returns the
\* current exit code; a process holds the lock only between its successful
\* acquisition and its finish().
C3_FinishReleasesAndReturns ==
    \A p \in Procs :
        /\ pc[p] = "exited" =>
              /\ trace[p][Len(trace[p])].step = "finish"
              /\ trace[p][Len(trace[p])].raised = NoError
              /\ lock_holder # p
              /\ app[p].status = app[p]._exit_code
        /\ lock_holder = p => InInterval(p)

\* A process whose setup() raised before the lock was acquired has finished,
\* and another whose run() raised while it held the lock has finished too.
C3_Witness ==
    \E p, q \in Procs :
        /\ pc[p] = "exited" /\ app[p].exc # NoError /\ ~Acquired(p)
        /\ pc[q] = "exited" /\ app[q].exc # NoError /\ Acquired(q)
        /\ \E i \in 1..Len(trace[q]) :
              trace[q][i].step = "plugins.run" /\ trace[q][i].raised # NoError

\* The selected plugin's run() was invoked by process p and raised an error
\* that "except Exception" catches.
PluginRunRaised(p) ==
    \E i \in 1..Len(trace[p]) :
        /\ trace[p][i].step = "plugins.run"
        /\ trace[p][i].raised # NoError
        /\ IsException(trace[p][i].raised)
        /\ Called(trace[p][i].calls, "run") # <<>>

\* C4: when the selected plugin's run() raises, the error reaches the top
\* level, which reports it, and the process ends with a non-zero exit status.
C4_PluginErrorGivesNonZeroStatus ==
    \A p \in Procs :
        pc[p] = "exited" /\ PluginRunRaised(p) =>
            /\ app[p].exc # NoError
            /\ \E i \in 1..Len(trace[p]) : trace[p][i].step = "handle_exception"
            /\ app[p].status # 0

\* What makes a candidate a bad one: its code unit does not load, or it
\* violates the plugin contract.
LoadFails(f) == f.kind # "file" \/ f.load # "ok"
ViolatesContract(f) ==
    ~LoadFails(f) /\ (~f.has_PLUGIN \/ ~f.has_class \/ f.cls # "subclass")
BadCandidate(f) == LoadFails(f) \/ ViolatesContract(f)

\* C5: import_from_directory raises nothing for a candidate whose code unit
\* fails to load or that violates the plugin contract.
C5_BadCandidateNeverAborts ==
    last.op = "import_from_directory" =>
        ~ \E f \in last.arg :
              /\ BadCandidate(f)
              /\ last.raised # NoError
              /\ last.raised.plugin = StripLast3(f.filename)

\* The candidate filter and the contract validation as the claim words them.
PassesFilter(f) ==
    /\ f.kind = "file"
    /\ f.filename[1] # "_"
    /\ Cardinality({i \in 1..Len(f.filename) : f.filename[i] = "."}) = 1
    /\ Len(f.filename) >= 3
    /\ SubSeq(f.filename, Len(f.filename) - 2, Len(f.filename)) = <<".", "p", "y">>
PassesValidation(f) ==
    f.load = "ok" /\ f.has_PLUGIN /\ f.has_class /\ f.cls = "subclass"

\* C6: after import_from_directory on a fresh PluginManager the registered
\* names are exactly those of the entries that pass the candidate filter and
\* the contract validation.  (Stated for a host that exposes VERSION, so that
\* it does not rest on how C20's lookup of self._app.VERSION ends.)
C6_RegistersExactlyTheValidCandidates ==
    [][ (pm = EmptyPM /\ host \in HostVersions
            /\ last'.op = "import_from_directory") =>
            Keys(pm'.modules) =
                {StripLast3(f.filename) :
                    f \in {g \in last'.arg : PassesFilter(g) /\ PassesValidation(g)}}
      ]_vars

\* C7: import_plugin fails with PluginUnavailableError, carrying the plugin
\* name and the underlying error, whenever loading the code unit fails, and
\* with PluginImplementationError whenever the loaded unit violates the
\* contract.
C7_ImportPluginErrorKinds ==
    last.op = "import_plugin" =>
        /\ LoadFails(last.arg) =>
              /\ last.raised.kind = "PluginUnavailableError"
              /\ last.raised.plugin = StripLast3(last.arg.filename)
              /\ last.raised.msg # "None"
        /\ ViolatesContract(last.arg) =>
              last.raised.kind = "PluginImplementationError"

\* C8: init_plugins constructs no instance for a name that already has one
\* and leaves the existing instances as they are, calls no constructor twice,
\* and, when it returns, has constructed instances for exactly the names that
\* had none; a second call right after constructs nothing.
C8_InitPluginsIdempotentIncremental ==
    [][ last'.op = "init_plugins" =>
            LET made == Called(last'.calls, "init")
            IN  /\ \A i \in 1..Len(made) : made[i] \notin Keys(pm.plugins)
                /\ \A i, j \in 1..Len(made) : i # j => made[i] # made[j]
                /\ \A n \in Keys(pm.plugins) :
                      /\ n \in Keys(pm'.plugins)
                      /\ DictGet(pm'.plugins, n) = DictGet(pm.plugins, n)
                /\ last'.raised = NoError =>
                      /\ SeqToSet(made) = Keys(pm.types) \ Keys(pm.plugins)
                      /\ Keys(pm'.plugins) = Keys(pm.types)
                /\ (last.op = "init_plugins" /\ last.raised = NoError) =>
                      made = <<>> /\ pm' = pm
      ]_vars

\* init_plugins found one instance in place and constructed the other one.
C8_Witness ==
    /\ last.op = "init_plugins"
    /\ last.raised = NoError
    /\ Len(Called(last.calls, "init")) = 1
    /\ Len(pm.plugins) = 2

\* C9: within one init_plugins call the constructors run in ascending
\* INIT_PRIORITY order, those of equal INIT_PRIORITY in the order in which
\* their names were discovered.
C9_InitOrder ==
    last.op = "init_plugins" =>
        LET made == Called(last.calls, "init")
            prio(n) == DictGet(pm.types, n).INIT_PRIORITY
        IN  \A i, j \in 1..Len(made) : i < j =>
                \/ prio(made[i]) < prio(made[j])
                \/ /\ prio(made[i]) = prio(made[j])
                   /\ IndexOf(discovered, made[i]) < IndexOf(discovered, made[j])

\* Two constructors ran, the one of the plugin discovered later first.
C9_Witness ==
    /\ last.op = "init_plugins"
    /\ Len(Called(last.calls, "init")) = 2
    /\ IndexOf(discovered, last.calls[1].name) > IndexOf(discovered, last.calls[2].name)

\* C10: PluginManager.finish() calls finish() on the instances in ascending
\* FINISH_PRIORITY order, those of equal FINISH_PRIORITY in the order in which
\* they were registered as instances.
C10_FinishOrder ==
    last.op = "finish" =>
        LET done == Called(last.calls, "finish")
            prio(n) == DictGet(pm.plugins, n).type.FINISH_PRIORITY
        IN  \A i, j \in 1..Len(done) : i < j =>
                \/ prio(done[i]) < prio(done[j])
                \/ /\ prio(done[i]) = prio(done[j])
                   /\ IndexOf(registered, done[i]) < IndexOf(registered, done[j])

\* finish() was called on two instances, on the one registered later first.
C10_Witness ==
    /\ last.op = "finish"
    /\ Len(Called(last.calls, "finish")) = 2
    /\ IndexOf(registered, last.calls[1].name) > IndexOf(registered, last.calls[2].name)

\* C11: PluginManager.finish() invokes finish() on every live instance, also
\* on those that follow an instance whose finish() raised.
C11_FinishReachesEveryInstance ==
    last.op = "finish" =>
        \A n \in Keys(pm.plugins) :
            Len(SelectSeq(last.calls, LAMBDA c : c.call = "finish" /\ c.name = n)) = 1

\* C13: when remove_plugin(name, call_finish) returns, a name that was in any
\* of the three maps is in none of them, and for a name that was in none the
\* call changed nothing.
C13_RemovePluginErasesKnownName ==
    [][ (last'.op = "remove_plugin" /\ last'.raised = NoError) =>
            LET name == last'.arg[1]
            IN  IF name \in Keys(pm.modules) \cup Keys(pm.types) \cup Keys(pm.plugins)
                THEN name \notin
                        Keys(pm'.modules) \cup Keys(pm'.types) \cup Keys(pm'.plugins)
                ELSE pm' = pm /\ last'.calls = <<>>
      ]_vars

\* C14: uninstall(name) on an initialised plugin whose uninstall() returns
\* invokes that uninstall() exactly once and no finish(), returns normally and
\* leaves the name in none of the three maps.
C14_UninstallRemovesPlugin ==
    [][ (/\ last'.op = "uninstall"
         /\ DictHas(pm.plugins, last'.arg)
         /\ \A i \in 1..Len(last'.calls) : ~last'.calls[i].raised) =>
            /\ last'.calls = <<Call("uninstall", last'.arg, FALSE)>>
            /\ last'.raised = NoError
            /\ last'.arg \notin
                  Keys(pm'.modules) \cup Keys(pm'.types) \cup Keys(pm'.plugins)
      ]_vars

\* The major component of a version string: what precedes its first dot.
RECURSIVE MajorOf(_)
MajorOf(v) ==
    IF v = <<>> \/ Head(v) = "." THEN <<>> ELSE <<Head(v)>> \o MajorOf(Tail(v))
Dots(v) == Cardinality({i \in 1..Len(v) : v[i] = "."})

\* C20: _plugin_is_outdated returns a result for every host and plugin
\* version, and the plugin is compatible exactly when its version has at least
\* two dotted components and its major component equals the host's.
C20_VersionCheckTotalAndMajorOnly ==
    last.op = "_plugin_is_outdated" =>
        /\ last.raised = NoError
        /\ last.returned =
              ~(Dots(last.arg.VERSION) >= 1 /\ MajorOf(last.arg.VERSION) = MajorOf(host))

\* The steps of setup() that change the process or the disk.
MutatingSteps ==
    {"_switch_user", "chdir", "paths.create", "logger.setup", "load_worlds",
     "plugins.setup", "plugins.init_plugins"}

\* C15: no identity switch, working-directory change, directory creation,
\* logger setup, world loading or plugin loading happens in a process that
\* does not hold the lock.
C15_LockBeforeMutatingWork ==
    \A p \in Procs : \A i \in 1..Len(trace[p]) :
        trace[p][i].step \in MutatingSteps => trace[p][i].locked

\* The steps of setup() in the order of its statements.
SetupOrder ==
    <<"conf.read", "_switch_user", "chdir", "paths.create", "lock.acquire",
      "logger.setup", "conf.reread", "load_worlds", "plugins.setup",
      "plugins.init_plugins", "argparser.setup">>

\* The steps of setup() that process p has executed, oldest first.
SetupSteps(p) == SelectSeq(trace[p], LAMBDA e : e.step \in SeqToSet(SetupOrder))

\* setup() in process p has executed its steps in the fixed order, and once a
\* step has failed no later step of setup() or run() has executed; after a
\* lock timeout there is no logger setup, world loading or plugin loading.
SetupInOrder(p) ==
    LET steps == SetupSteps(p)
    IN  /\ Len(steps) <= Len(SetupOrder)
        /\ \A i \in 1..Len(steps) :
              /\ steps[i] = trace[p][i]
              /\ steps[i].step = SetupOrder[i]
              /\ i > 1 => steps[i - 1].raised = NoError
        /\ \A i, j \in 1..Len(trace[p]) :
              (i < j /\ trace[p][i].raised # NoError) =>
                  trace[p][j].step \in {"handle_exception", "finish"}
        /\ (\E i \in 1..Len(trace[p]) : trace[p][i].raised.kind = "Timeout") =>
              \A j \in 1..Len(trace[p]) :
                  trace[p][j].step \notin
                      {"logger.setup", "load_worlds", "plugins.setup",
                       "plugins.init_plugins"}

\* _switch_user in process p has switched the group before the user, and
\* where it failed it raised WrongUserError with the configured username.
SwitchFailsAsWrongUser(p) ==
    \A i \in 1..Len(trace[p]) :
        trace[p][i].step = "_switch_user" =>
            LET e == trace[p][i]
            IN  /\ Called(e.calls, "setuid") # <<>> =>
                      e.calls[1] = Call("setgid", app[p].user, FALSE)
                /\ e.raised # NoError =>
                      /\ e.raised.kind = "WrongUserError"
                      /\ e.raised.plugin = app[p].user

\* C16: setup() executes its steps in the fixed order and each step is a
\* precondition of the next: after a failed step, such as an identity switch
\* that fails, raising WrongUserError with the configured username, or a lock
\* timeout, no later step executes.
C16_SetupOrderAndAbort ==
    \A p \in Procs : SetupInOrder(p) /\ SwitchFailsAsWrongUser(p)

\* Process p has given up waiting for the lock.
TimedOut(p) ==
    \E i \in 1..Len(trace[p]) : trace[p][i].raised.kind = "Timeout"

\* C17: a process waiting for the lock with emsm.timeout 0 never gives up and
\* eventually holds the lock; with a positive timeout it ends up holding the
\* lock or failing, and it fails only after finding the lock held and then
\* never holds the lock.
C17_LockTimeoutHonoured ==
    /\ [](\A p \in Procs :
            TimedOut(p) =>
                /\ app[p].timeout > 0
                /\ app[p].waited
                /\ lock_holder # p
                /\ ~Acquired(p)
                /\ \A i \in 1..Len(trace[p]) : ~trace[p][i].locked)
    /\ \A p \in Procs :
          (pc[p] = "lock.acquire")
              ~> (lock_holder = p \/ (app[p].timeout > 0 /\ TimedOut(p)))

\* A process with emsm.timeout 0 found the lock held, waited, and holds it now
\* that the former holder has finished.
C17_Witness ==
    \E p, q \in Procs :
        /\ p # q
        /\ app[p].timeout = 0 /\ app[p].waited /\ lock_holder = p
        /\ Acquired(q) /\ Finished(q)

\* The events of process p whose step is step.
StepsOf(p, step) == SelectSeq(trace[p], LAMBDA e : e.step = step)

\* C12: PluginManager.run() invokes no plugin's run and returns when the
\* arguments select no plugin, invokes run of the selected plugin's instance
\* once and of no other instance when they select one, and over the life of
\* an Application no plugin's run is invoked more than once.
C12_RunDispatchesAtMostOnce ==
    \A p \in Procs :
        LET runs == StepsOf(p, "plugins.run")
            selected == app[p].selected
        IN  /\ Len(runs) <= 1
            /\ \A i \in 1..Len(runs) :
                  LET called == Called(runs[i].calls, "run")
                  IN  /\ selected = None => called = <<>> /\ runs[i].raised = NoError
                      /\ DictHas(app[p]._plugins.plugins, selected) =>
                            called = <<selected>>
                      /\ Len(called) <= 1
                      /\ \A k \in 1..Len(called) : called[k] = selected
            /\ \A i \in 1..Len(trace[p]) :
                  trace[p][i].step # "plugins.run" =>
                      Called(trace[p][i].calls, "run") = <<>>

\* One process has dispatched to the selected plugin with another instance
\* alive; the other process ran with no plugin selected.
C12_Witness ==
    \E p, q \in Procs :
        /\ p # q
        /\ Len(app[p]._plugins.plugins) = 2
        /\ Len(StepsOf(p, "plugins.run")) = 1
        /\ Len(StepsOf(p, "plugins.run")[1].calls) = 1
        /\ app[q].selected = None
        /\ Len(app[q]._plugins.plugins) = 2
        /\ Len(StepsOf(q, "plugins.run")) = 1

\* C19: in every Application.run() that returns normally the argument
\* parsing, the selected plugin's run (if any), the finish() of every live
\* plugin and the configuration write happen in this order, and the
\* configuration is written once, after all finish() calls.
C19_RunOrder ==
    \A p \in Procs : \A k \in 1..Len(trace[p]) :
        (trace[p][k].step = "conf.write" /\ trace[p][k].raised = NoError) =>
            /\ k > 3
            /\ trace[p][k - 3].step = "argparser.args"
            /\ trace[p][k - 2].step = "plugins.run"
            /\ trace[p][k - 1].step = "plugins.finish"
            /\ \A i \in (k - 3)..(k - 1) : trace[p][i].raised = NoError
            /\ Len(StepsOf(p, "conf.write")) = 1
            /\ Len(StepsOf(p, "argparser.args")) = 1
            /\ Called(trace[p][k - 2].calls, "run") =
                  IF app[p].selected = None THEN <<>> ELSE <<app[p].selected>>
            /\ LET done == Called(trace[p][k - 1].calls, "finish")
               IN  /\ Len(done) = Len(app[p]._plugins.plugins)
                   /\ SeqToSet(done) = Keys(app[p]._plugins.plugins)
                   /\ \A i \in 1..k : i # k - 1 =>
                         Called(trace[p][i].calls, "finish") = <<>>

\* A run() that returned after dispatching to a plugin and finishing two.
C19_Witness ==
    \E p \in Procs : \E k \in 1..Len(trace[p]) :
        /\ trace[p][k].step = "conf.write" /\ trace[p][k].raised = NoError
        /\ Len(trace[p][k - 2].calls) = 1
        /\ Len(trace[p][k - 1].calls) = 2

\* C18: the exit code is 0 at construction and a non-negative integer ever
\* after; set_exit_code with a code that is no integer or is negative raises
\* and leaves the stored code as it was, with a valid code it stores the code,
\* and exit_code() returns the stored code.
C18_ExitCodeValidated ==
    /\ \A p \in Procs : app[p]._exit_code = 0
    /\ [](\A p \in Procs : app[p]._exit_code \in Nat)
    /\ [][ \A p \in Procs :
              trace'[p] # trace[p] =>
                  LET e == trace'[p][Len(trace'[p])]
                  IN  /\ e.step = "set_exit_code" =>
                            IF e.arg.int /\ e.arg.value >= 0
                            THEN /\ e.raised = NoError
                                 /\ app'[p]._exit_code = e.arg.value
                            ELSE /\ e.raised.kind \in {"TypeError", "ValueError"}
                                 /\ app'[p]._exit_code = app[p]._exit_code
                      /\ e.step = "exit_code" =>
                            /\ e.raised = NoError
                            /\ e.returned = app[p]._exit_code
                            /\ app'[p]._exit_code = app[p]._exit_code
        ]_vars

\* On one Application set_exit_code(4) was followed by exit_code() returning
\* 4; on the other set_exit_code(4) by a refused set_exit_code(-1).
C18_Witness ==
    \E p, q \in Procs :
        /\ p # q
        /\ Len(trace[p]) = 2
        /\ trace[p][1].step = "set_exit_code" /\ trace[p][1].arg = Int_(4)
        /\ trace[p][2].step = "exit_code" /\ trace[p][2].returned = 4
        /\ Len(trace[q]) = 2
        /\ trace[q][1].step = "set_exit_code" /\ trace[q][1].arg = Int_(4)
        /\ trace[q][2].step = "set_exit_code" /\ trace[q][2].arg = Int_(-1)
        /\ trace[q][2].raised.kind = "ValueError"
        /\ app[q]._exit_code = 4

\* The version of the plugin class f is outdated for the host: it has fewer
\* than two dotted components or its major component is not the host's.
C21_Outdated(f) ==
    ~(Dots(f.VERSION) >= 1 /\ MajorOf(f.VERSION) = MajorOf(host))

\* What C21 says of one call: import_plugin of a plugin that meets the contract
\* and whose version is outdated raises nothing and registers the module and
\* the type under the plugin's name; init_plugins then constructs it and run
\* dispatches to it as for a compatible plugin.
C21_Step ==
    /\ (/\ last'.op = "import_plugin"
        /\ last'.arg.kind = "file"
        /\ PassesValidation(last'.arg)
        /\ C21_Outdated(last'.arg)) =>
           LET name == StripLast3(last'.arg.filename)
           IN  /\ last'.raised = NoError
               /\ DictHas(pm'.modules, name)
               /\ DictGet(pm'.modules, name) = last'.arg
               /\ DictHas(pm'.types, name)
               /\ DictGet(pm'.types, name) = last'.arg
    /\ (last'.op = "init_plugins" /\ last'.raised = NoError) =>
           \A n \in Keys(pm.types) :
               C21_Outdated(DictGet(pm.types, n)) => n \in Keys(pm'.plugins)
    /\ (/\ last'.op = "run"
        /\ DictHas(pm.plugins, last'.arg)
        /\ C21_Outdated(DictGet(pm.plugins, last'.arg).type)) =>
           Called(last'.calls, "run") = <<last'.arg>>

\* C21: an outdated plugin that meets the contract is imported without a
\* PluginOutdatedError, registered, initialised and dispatchable like a
\* compatible one, on every call of every behaviour.
C21_OutdatedPluginIsLoaded == [][C21_Step]_vars

\* The number of entries the dict d holds under key.
C22_Entries(d, key) == Cardinality({i \in 1..Len(d) : d[i].k = key})

\* What C22 says of one call: a successful import_plugin of a name that is
\* registered already leaves one module entry and one type entry for the
\* name, those of this import, adds no entry and leaves every instance as it
\* is; an init_plugins right after the re-import of a name that has an
\* instance calls no constructor for the name and keeps its instance.
C22_Step ==
    /\ (/\ last'.op = "import_plugin"
        /\ last'.raised = NoError
        /\ DictHas(pm.types, StripLast3(last'.arg.filename))) =>
           LET name == StripLast3(last'.arg.filename)
           IN  /\ C22_Entries(pm'.modules, name) = 1
               /\ C22_Entries(pm'.types, name) = 1
               /\ DictGet(pm'.modules, name) = last'.arg
               /\ DictGet(pm'.types, name) = last'.arg
               /\ Len(pm'.modules) = Len(pm.modules)
               /\ Len(pm'.types) = Len(pm.types)
               /\ pm'.plugins = pm.plugins
    /\ (/\ last.op = "import_plugin"
        /\ last.raised = NoError
        /\ DictHas(pm.plugins, StripLast3(last.arg.filename))
        /\ last'.op = "init_plugins") =>
           LET name == StripLast3(last.arg.filename)
           IN  /\ name \notin SeqToSet(Called(last'.calls, "init"))
               /\ DictHas(pm'.plugins, name)
               /\ DictGet(pm'.plugins, name) = DictGet(pm.plugins, name)

\* C22: importing a plugin name again replaces its module and type entries
\* instead of adding entries, leaves an existing instance of the name
\* unchanged, and a following init_plugins constructs no new instance for it.
C22_ReimportReplaces == [][C22_Step]_vars

\* a.py was imported and initialised, then imported again with other content:
\* the type entry is the new class, the instance is still of the old one.
C22_Witness ==
    /\ last.op = "import_plugin"
    /\ last.raised = NoError
    /\ last.arg = File_a2
    /\ C22_Entries(pm.types, Name_a) = 1
    /\ DictGet(pm.types, Name_a) = File_a2
    /\ DictHas(pm.plugins, Name_a)
    /\ DictGet(pm.plugins, Name_a).type = File_a1

\* C23: after any sequence of PluginManager calls the module map and the type
\* map have the same keys, in the same order, so that for every name
\* plugin_is_available(name) holds exactly when get_plugin_type(name) returns
\* a type, and get_plugin_names() lists exactly the names that have a type.
C23_ModuleAndTypeKeysAgree ==
    /\ DictKeys(pm.modules) = DictKeys(pm.types)
    /\ SeqToSet(get_plugin_names(pm)) = Keys(pm.types)
    /\ \A name \in CallNames :
          /\ plugin_is_available(pm, name) <=> get_plugin_type(pm, name) # <<>>
          /\ get_module(pm, name) # <<>> <=> get_plugin_type(pm, name) # <<>>

\* remove_plugin has called finish() on the instance of a and removed a from
\* all maps while b stays registered: b is available and has a type, a neither.
C23_Witness ==
    /\ last.op = "remove_plugin"
    /\ last.arg[1] = Name_a
    /\ last.calls = <<Call("finish", Name_a, FALSE)>>
    /\ ~plugin_is_available(pm, Name_a)
    /\ get_plugin_type(pm, Name_a) = <<>>
    /\ plugin_is_available(pm, Name_b)
    /\ get_plugin_type(pm, Name_b) = <<File_b>>

\* C24: an import_plugin call that raises, whatever the error, leaves the
\* module map, the type map and the instance map as they were; a failed
\* re-import of a registered name keeps its module, type and instance.
C24_FailedImportChangesNothing ==
    [][ (last'.op = "import_plugin" /\ last'.raised # NoError) =>
            /\ pm'.modules = pm.modules
            /\ pm'.types = pm.types
            /\ pm'.plugins = pm.plugins
            /\ get_plugin_names(pm') = get_plugin_names(pm)
      ]_vars

\* The re-import of a.py failed on loading after a.py had been registered and
\* initialised: module, type and instance of a are the old ones.
C24_Witness ==
    /\ last.op = "import_plugin"
    /\ last.arg = File_aImp
    /\ last.raised.kind = "PluginUnavailableError"
    /\ StripLast3(last.arg.filename) = Name_a
    /\ get_module(pm, Name_a) = <<File_a1>>
    /\ get_plugin_type(pm, Name_a) = <<File_a1>>
    /\ DictHas(pm.plugins, Name_a)
    /\ DictGet(pm.plugins, Name_a).type = File_a1

\* C25: in a process where the selected plugin's run() has raised, the core
\* has called no plugin's finish() and has not written the configuration;
\* in a process where a plugin's finish() has raised during
\* PluginManager.finish(), the configuration has not been written.
C25_NoFinishNoWriteAfterError ==
    \A p \in Procs :
        LET runs   == StepsOf(p, "plugins.run")
            fins   == StepsOf(p, "plugins.finish")
            writes == StepsOf(p, "conf.write")
        IN  /\ (runs # <<>> /\ runs[1].raised # NoError) =>
                  /\ fins = <<>>
                  /\ writes = <<>>
                  /\ \A i \in 1..Len(trace[p]) :
                        Called(trace[p][i].calls, "finish") = <<>>
            /\ (fins # <<>> /\ fins[1].raised # NoError) =>
                  writes = <<>>

\* Both processes have ended: in one the selected plugin's run() raised while
\* two plugins were initialised, in the other the finish() of the second
\* plugin of the finish queue raised.
C25_Witness ==
    \E p, q \in Procs :
        /\ p # q
        /\ pc[p] = "exited" /\ pc[q] = "exited"
        /\ StepsOf(p, "plugins.run") # <<>>
        /\ StepsOf(p, "plugins.run")[1].calls = <<Call("run", app[p].selected, TRUE)>>
        /\ StepsOf(p, "plugins.run")[1].raised.kind = "PluginError"
        /\ Len(app[p]._plugins.plugins) = 2
        /\ StepsOf(q, "plugins.finish") # <<>>
        /\ StepsOf(q, "plugins.finish")[1].raised # NoError
        /\ Len(StepsOf(q, "plugins.finish")[1].calls) = 2

\* The names of the init queue of the manager, in INIT_PRIORITY order.
C26_Queue == DictKeys(init_queue(pm))

\* The names that come before the name failing in the init queue, and the
\* failing name with those that come after it.
C26_Earlier(failing) ==
    {C26_Queue[i] : i \in 1..(IndexOf(C26_Queue, failing) - 1)}
C26_FromFailing(failing) ==
    {C26_Queue[i] : i \in IndexOf(C26_Queue, failing)..Len(C26_Queue)}

\* The init_plugins call of this step ended with the error of the constructor
\* of one of the raising plugins, the last constructor the call has reached.
C26_Propagates ==
    /\ last'.raised = Error("PluginError", last'.raised.plugin, "init")
    /\ last'.raised.plugin \in last'.arg
    /\ last'.raised.plugin \in SeqToSet(C26_Queue)
    /\ last'.calls # <<>>
    /\ last'.calls[Len(last'.calls)] = Call("init", last'.raised.plugin, TRUE)

\* Every name before the failing one has an instance after the call, the one
\* it had before if it had one; the module and type maps are as before.
C26_EarlierKeptEntriesKept ==
    /\ \A n \in C26_Earlier(last'.raised.plugin) :
          /\ DictHas(pm'.plugins, n)
          /\ DictHas(pm.plugins, n) =>
                DictGet(pm'.plugins, n) = DictGet(pm.plugins, n)
    /\ pm'.modules = pm.modules
    /\ pm'.types = pm.types

\* An init_plugins call that follows one that raised calls constructors only
\* for names without an instance and, when it returns, for all of them.
C26_RetryConstructsTheMissing ==
    (last.op = "init_plugins" /\ last.raised # NoError
        /\ last'.op = "init_plugins") =>
        LET made == SeqToSet(Called(last'.calls, "init"))
        IN  /\ made \subseteq Keys(pm.types) \ Keys(pm.plugins)
            /\ last'.raised = NoError => made = Keys(pm.types) \ Keys(pm.plugins)

\* C26 as stated: when a constructor raises in init_plugins the error
\* propagates, every earlier name of the init queue has an instance, the
\* failing name and every later one have no instance while the module and
\* type entries stay, and a following init_plugins constructs exactly the
\* names without an instance.
C26_AsStated ==
    [][ /\ (last'.op = "init_plugins" /\ last'.raised # NoError) =>
              /\ C26_Propagates
              /\ C26_EarlierKeptEntriesKept
              /\ \A n \in C26_FromFailing(last'.raised.plugin) :
                    ~DictHas(pm'.plugins, n)
        /\ C26_RetryConstructsTheMissing
      ]_vars

\* C26, amended: when a constructor raises in init_plugins the error
\* propagates, every earlier name of the init queue has an instance, the
\* failing name has none and every later name is as it was before the call
\* (without an instance unless an earlier call constructed it) while the
\* module and type entries stay, and a following init_plugins constructs
\* exactly the names without an instance.
C26_ConstructorFailureIsPartial ==
    [][ /\ (last'.op = "init_plugins" /\ last'.raised # NoError) =>
              /\ C26_Propagates
              /\ C26_EarlierKeptEntriesKept
              /\ ~DictHas(pm'.plugins, last'.raised.plugin)
              /\ \A n \in C26_FromFailing(last'.raised.plugin) :
                    /\ DictHas(pm'.plugins, n) <=> DictHas(pm.plugins, n)
                    /\ DictHas(pm.plugins, n) =>
                          DictGet(pm'.plugins, n) = DictGet(pm.plugins, n)
        /\ C26_RetryConstructsTheMissing
      ]_vars

\* init_plugins constructed the first plugin of the queue and the constructor
\* of the second raised: one instance, two module and type entries.
C26_Witness ==
    /\ last.op = "init_plugins"
    /\ last.raised.kind = "PluginError"
    /\ Len(last.calls) = 2
    /\ ~last.calls[1].raised /\ last.calls[2].raised
    /\ Keys(pm.plugins) = {last.calls[1].name}
    /\ Keys(pm.types) = {last.calls[1].name, last.calls[2].name}
    /\ Keys(pm.modules) = Keys(pm.types)

====
